---- MODULE Spec2Model ----
(***************************************************************************)
(* Model of the OpenXR instance-extensions wrapper (src/dllmain.cpp).      *)
(*                                                                         *)
(* The wrapper is a runtime DLL that loads a chained runtime, forwards     *)
(* xrNegotiateLoaderRuntimeInterface to it, splices its own                *)
(* xrGetInstanceProcAddr into the negotiation response, and replaces       *)
(* xrEnumerateInstanceExtensionProperties by a version that masks the      *)
(* extensions named in the configuration file.                             *)
(*                                                                         *)
(* Strings that the code cuts or compares character by character           *)
(* (configuration lines, extension names) are sequences of characters;     *)
(* function names and pointers, which the code only compares whole, are    *)
(* TLA+ strings.                                                           *)
(***************************************************************************)
EXTENDS Integers, Sequences, FiniteSets, TLC

VARIABLES
    pc,                     \* "attach": DllMain not run yet; "idle": no call under way;
                            \* "returned": a call has returned to the host; "crashed"
    loadOutcome,            \* what the chain load of initializeWrapper met
    chainedRuntimeModule,
    next_xrNegotiateLoaderRuntimeInterface,
    next_xrGetInstanceProcAddr,
    next_xrEnumerateInstanceExtensionProperties,
    extensionsToMask,
    chainedList,            \* the extension list the chained runtime holds (empty until
                            \* the runtime is in the process)
    handedOut,              \* the wrapper's functions the host has been given a pointer to
    discovery,              \* <<n>>: the caller's discovery call reported count n, and the
                            \* chained list has not changed since; <<>> otherwise
    lastCall,               \* the call that has just returned: its arguments and outputs
    inFlight                \* per host thread, the enumeration call it is in the middle
                            \* of (SpecThreads; the other specifications make a call
                            \* in one step)

vars ==
    <<pc, loadOutcome, chainedRuntimeModule,
      next_xrNegotiateLoaderRuntimeInterface, next_xrGetInstanceProcAddr,
      next_xrEnumerateInstanceExtensionProperties, extensionsToMask,
      chainedList, handedOut, discovery, lastCall, inFlight>>

----------------------------------------------------------------------------
(* Bounds of the model. *)

\* Lines in a configuration file.
MaxLines == 3
\* Records in the chained runtime's extension list.
MaxRecords == 2
\* Largest capacity a caller declares.
MaxCapacity == 2

----------------------------------------------------------------------------
(* Result codes (openxr.h), as the code uses them. *)

XR_SUCCESS == 0
\* A qualified success code: XR_SUCCEEDED holds of it, and it is not XR_SUCCESS.
XR_TIMEOUT_EXPIRED == 1
XR_ERROR_RUNTIME_FAILURE == -2
XR_ERROR_SIZE_INSUFFICIENT == -11
XR_ERROR_FILE_ACCESS_ERROR == -32

XR_SUCCEEDED(result) ==
    result >= 0

\* The codes a chained entry point may answer with.
ChainedCodes ==
    {XR_SUCCESS, XR_TIMEOUT_EXPIRED, XR_ERROR_RUNTIME_FAILURE, XR_ERROR_SIZE_INSUFFICIENT}

----------------------------------------------------------------------------
(* Pointers. *)

NullPtr == "nullptr"
\* The wrapper's own functions.
Shim_xrGetInstanceProcAddr == "wrapper!xrGetInstanceProcAddr"
Shim_xrEnumerateInstanceExtensionProperties == "wrapper!xrEnumerateInstanceExtensionProperties"
\* What the chained runtime may export or return.
ChainedModule == "chained.dll"
Chained_xrNegotiateLoaderRuntimeInterface == "chained!xrNegotiateLoaderRuntimeInterface"
ChainedResolvers == {"chained!xrGetInstanceProcAddr#1", "chained!xrGetInstanceProcAddr#2"}
ChainedEnumerators ==
    {"chained!xrEnumerateInstanceExtensionProperties#1",
     "chained!xrEnumerateInstanceExtensionProperties#2"}
ChainedOtherFunction == "chained!xrCreateInstance"

\* The one name the resolver substitutes (dllmain.cpp:112).
EnumerateName == "xrEnumerateInstanceExtensionProperties"
\* The names the host asks the resolver for.
FunctionNames ==
    {EnumerateName, "xrCreateInstance", "xrEnumerateInstanceExtensionProperties2"}

----------------------------------------------------------------------------
(* Configuration file: lines of characters. *)

RuntimeKey == <<"r", "u", "n", "t", "i", "m", "e">>
MaskKey == <<"m", "a", "s", "k", "E", "x", "t", "e", "n", "s", "i", "o", "n">>
DllSuffix == <<".", "d", "l", "l">>

NameA == <<"X", "R", "_", "A">>
\* A name that NameA is a proper prefix of.
NameAB == <<"X", "R", "_", "A", "B">>

ConfigLines ==
    { RuntimeKey \o <<"=">> \o <<"r", "t">>,
      RuntimeKey \o <<"=">> \o <<"r", "2">>,
      MaskKey \o <<"=">> \o NameA,
      MaskKey \o <<"=">> \o NameAB,
      <<"f", "o", "o">> \o <<"=">> \o NameA,
      MaskKey }

SeqsUpTo(S, n) ==
    UNION { [1..k -> S] : k \in 0..n }

\* The files initializeWrapper may find: none, or up to MaxLines lines.
NoFile == <<"no file">>
ConfigFiles ==
    {NoFile} \cup { <<"file", lines>> : lines \in SeqsUpTo(ConfigLines, MaxLines) }

\* std::string::find(ch): the first position (0-based) of ch, or npos.
npos == -1
StringFind(line, ch) ==
    IF \E i \in 1..Len(line) : line[i] = ch
    THEN (CHOOSE i \in 1..Len(line) : line[i] = ch /\ \A j \in 1..(i - 1) : line[j] # ch) - 1
    ELSE npos

\* std::string::substr(pos, count) and substr(pos), 0-based.
SubStr(line, pos, count) ==
    SubSeq(line, pos + 1, pos + count)
SubStrFrom(line, pos) ==
    SubSeq(line, pos + 1, Len(line))

\* One turn of the getline loop: the configuration after `line`.
\* (variant: a value already in the list is not added again)
ParseLineOnce(cfg, line) ==
    LET offset == StringFind(line, "=")
    IN  IF offset # npos
        THEN LET name  == SubStr(line, 0, offset)
                 value == SubStrFrom(line, offset + 1)
                 known == \E i \in 1..Len(cfg.extensionsToMask) :
                              cfg.extensionsToMask[i] = value
             IN  IF name = RuntimeKey
                 THEN [cfg EXCEPT !.openXrRuntime = value \o DllSuffix]
                 ELSE IF name = MaskKey /\ ~known
                      THEN [cfg EXCEPT !.extensionsToMask = Append(@, value)]
                      ELSE cfg
        ELSE cfg
ParseLine(cfg, line) ==
    LET offset == StringFind(line, "=")
    IN  IF offset # npos
        THEN LET name  == SubStr(line, 0, offset)
                 value == SubStrFrom(line, offset + 1)
             IN  IF name = RuntimeKey
                 THEN [cfg EXCEPT !.openXrRuntime = value \o DllSuffix]
                 ELSE IF name = MaskKey
                      THEN [cfg EXCEPT !.extensionsToMask = Append(@, value)]
                      ELSE cfg
        ELSE cfg

RECURSIVE ParseLines(_, _)
ParseLines(cfg, lines) ==
    IF lines = <<>>
    THEN cfg
    ELSE ParseLines(ParseLine(cfg, Head(lines)), Tail(lines))

\* The configuration read from a file: the runtime path and the mask list.
ReadConfiguration(file) ==
    LET empty == [openXrRuntime |-> <<>>, extensionsToMask |-> <<>>]
    IN  IF file = NoFile THEN empty ELSE ParseLines(empty, file[2])


----------------------------------------------------------------------------
(* Process-wide state and the calls made on it. *)

NoCall == [op |-> "none"]

\* The host threads that may be inside the replacement at once.
Threads == {"thread 1", "thread 2"}
NoThreadInside == [t \in Threads |-> [at |-> "out"]]

\* The wrapper's globals (dllmain.cpp:27-34), as one value.
Globals ==
    [ chainedRuntimeModule |-> chainedRuntimeModule,
      next_xrNegotiateLoaderRuntimeInterface |-> next_xrNegotiateLoaderRuntimeInterface,
      next_xrGetInstanceProcAddr |-> next_xrGetInstanceProcAddr,
      next_xrEnumerateInstanceExtensionProperties |->
          next_xrEnumerateInstanceExtensionProperties,
      extensionsToMask |-> extensionsToMask ]

\* XrExtensionProperties: two records of one name differ in their version.
Records ==
    { [extensionName |-> NameA, extensionVersion |-> 1],
      [extensionName |-> NameA, extensionVersion |-> 2],
      [extensionName |-> NameAB, extensionVersion |-> 1] }

\* The lists the chained runtime may hold.
Lists ==
    SeqsUpTo(Records, MaxRecords)

Init ==
    /\ pc = "attach"
    /\ loadOutcome = "none"
    /\ chainedRuntimeModule = NullPtr
    /\ next_xrNegotiateLoaderRuntimeInterface = NullPtr
    /\ next_xrGetInstanceProcAddr = NullPtr
    /\ next_xrEnumerateInstanceExtensionProperties = NullPtr
    /\ extensionsToMask = <<>>
    /\ chainedList = <<>>
    /\ handedOut = {}
    /\ discovery = <<>>
    /\ lastCall = NoCall
    /\ inFlight = NoThreadInside

\* dllmain.cpp:183-193: the chain load. LoadLibraryW finds the module or not
\* (moduleFound), GetProcAddress the symbol or not (symbolFound).
LoadChain(openXrRuntime, moduleFound, symbolFound) ==
    IF openXrRuntime # <<>>
    THEN IF moduleFound
         THEN [ module  |-> ChainedModule,
                symbol  |-> IF symbolFound
                            THEN Chained_xrNegotiateLoaderRuntimeInterface
                            ELSE NullPtr,
                outcome |-> IF symbolFound THEN "loaded" ELSE "symbol not found" ]
         ELSE [ module |-> NullPtr, symbol |-> NullPtr, outcome |-> "module not found" ]
    ELSE [ module |-> NullPtr, symbol |-> NullPtr, outcome |-> "no runtime" ]

\* DllMain(DLL_PROCESS_ATTACH) runs initializeWrapper on the file it finds.
initializeWrapper(file, moduleFound, symbolFound) ==
    LET cfg  == ReadConfiguration(file)
        load == LoadChain(cfg.openXrRuntime, moduleFound, symbolFound)
    IN  /\ pc' = "returned"
        /\ extensionsToMask' = cfg.extensionsToMask
        /\ chainedRuntimeModule' = load.module
        /\ next_xrNegotiateLoaderRuntimeInterface' = load.symbol
        /\ loadOutcome' = IF file = NoFile THEN "no file" ELSE load.outcome
        /\ lastCall' = [ op |-> "DllMain", returned |-> TRUE, file |-> file,
                         openXrRuntime |-> cfg.openXrRuntime ]
        /\ UNCHANGED <<next_xrGetInstanceProcAddr,
                       next_xrEnumerateInstanceExtensionProperties, chainedList,
                       handedOut, discovery, inFlight>>

DllMain ==
    /\ pc = "attach"
    /\ \E file \in ConfigFiles, moduleFound \in BOOLEAN, symbolFound \in BOOLEAN :
           initializeWrapper(file, moduleFound, symbolFound)

\* An entry point has returned: the host takes the outputs, and the call's
\* arguments and outputs are gone.
Return ==
    /\ pc = "returned"
    /\ pc' = "idle"
    /\ lastCall' = NoCall
    /\ UNCHANGED <<inFlight, loadOutcome, chainedRuntimeModule,
                   next_xrNegotiateLoaderRuntimeInterface, next_xrGetInstanceProcAddr,
                   next_xrEnumerateInstanceExtensionProperties, extensionsToMask,
                   chainedList, handedOut, discovery>>

\* The chained runtime's extension list changes between two calls (the first
\* time, from the empty list to the list the loaded runtime has).
ChainedListChanges ==
    /\ pc = "idle"
    /\ chainedRuntimeModule # NullPtr
    /\ \E list \in Lists \ {chainedList} : chainedList' = list
    /\ discovery' = <<>>
    /\ UNCHANGED <<inFlight, pc, loadOutcome, chainedRuntimeModule,
                   next_xrNegotiateLoaderRuntimeInterface, next_xrGetInstanceProcAddr,
                   next_xrEnumerateInstanceExtensionProperties, extensionsToMask,
                   handedOut, lastCall>>

----------------------------------------------------------------------------
(* xrNegotiateLoaderRuntimeInterface (dllmain.cpp:200-218). *)

NegotiateName == "xrNegotiateLoaderRuntimeInterface"

\* The request/response record as the host hands it in.
HostRequest ==
    [getInstanceProcAddr |-> NullPtr, runtimeInterfaceVersion |-> 0]

\* What the chained negotiation leaves in the record: on success its resolver
\* and version; on failure the record untouched, or (partial) its resolver.
ChainedNegotiate(request, code, resolver, partial) ==
    [ result   |-> code,
      response |-> IF XR_SUCCEEDED(code)
                   THEN [getInstanceProcAddr |-> resolver, runtimeInterfaceVersion |-> 1]
                   ELSE IF partial
                        THEN [request EXCEPT !.getInstanceProcAddr = resolver]
                        ELSE request ]

\* dllmain.cpp:203: the gate on the chained module handle.
\* (variant: the gate left out)
ModuleAbsentNoGate(module) ==
    FALSE
ModuleAbsent(module) ==
    module = NullPtr

\* dllmain.cpp:214: the response handed back after a successful chained call.
SubstituteResolver(response) ==
    [response EXCEPT !.getInstanceProcAddr = Shim_xrGetInstanceProcAddr]

\* dllmain.cpp:211: the resolver remembered after a successful chained call.
\* (variant: lines 211 and 214 in the other order)
CaptureResolverAfterSubstitution(response) ==
    SubstituteResolver(response).getInstanceProcAddr
CaptureResolver(response) ==
    response.getInstanceProcAddr

\* The wrapper's functions among the pointers a call hands to the host.
Handed(pointers) ==
    pointers \cap {Shim_xrGetInstanceProcAddr, Shim_xrEnumerateInstanceExtensionProperties}

\* dllmain.cpp:209: whether the chained negotiation is taken as done.
\* (variant: the result test left out)
IsNegotiatedAlways(result) ==
    TRUE
IsNegotiated(result) ==
    XR_SUCCEEDED(result)

xrNegotiateLoaderRuntimeInterface(request, code, resolver, partial) ==
    /\ IF ModuleAbsent(chainedRuntimeModule)
       THEN /\ pc' = "returned"
            /\ lastCall' = [ op |-> NegotiateName, returned |-> TRUE,
                             before |-> Globals,
                             result |-> XR_ERROR_FILE_ACCESS_ERROR,
                             request |-> request, response |-> request,
                             chained |-> <<>> ]
            /\ UNCHANGED <<next_xrGetInstanceProcAddr, handedOut>>
       ELSE IF next_xrNegotiateLoaderRuntimeInterface = NullPtr
            THEN \* a call through a null function pointer
                 /\ pc' = "crashed"
                 /\ lastCall' = [ op |-> NegotiateName, returned |-> FALSE,
                                  before |-> Globals,
                                  request |-> request, response |-> request,
                                  chained |-> <<>> ]
                 /\ UNCHANGED <<next_xrGetInstanceProcAddr, handedOut>>
            ELSE LET c == ChainedNegotiate(request, code, resolver, partial)
                     log == <<[ fn |-> next_xrNegotiateLoaderRuntimeInterface,
                                request |-> request,
                                result |-> c.result, response |-> c.response ]>>
                     response == IF IsNegotiated(c.result)
                                 THEN SubstituteResolver(c.response)
                                 ELSE c.response
                 IN  /\ pc' = "returned"
                     /\ next_xrGetInstanceProcAddr' =
                            IF IsNegotiated(c.result)
                            THEN CaptureResolver(c.response)
                            ELSE next_xrGetInstanceProcAddr
                     /\ lastCall' = [ op |-> NegotiateName, returned |-> TRUE,
                                      before |-> Globals,
                                      result |-> c.result, request |-> request,
                                      response |-> response, chained |-> log ]
                     /\ handedOut' =
                            handedOut \cup Handed({response.getInstanceProcAddr})
    /\ UNCHANGED <<inFlight, loadOutcome, chainedRuntimeModule,
                   next_xrNegotiateLoaderRuntimeInterface,
                   next_xrEnumerateInstanceExtensionProperties, extensionsToMask,
                   chainedList, discovery>>

\* The host's loader may call the exported entry point at any time.
Negotiate ==
    /\ pc = "idle"
    /\ \E code \in ChainedCodes, resolver \in ChainedResolvers, partial \in BOOLEAN :
           xrNegotiateLoaderRuntimeInterface(HostRequest, code, resolver, partial)

----------------------------------------------------------------------------
(* xrGetInstanceProcAddr (dllmain.cpp:107-124). *)

ResolverName == "xrGetInstanceProcAddr"

\* What the caller's output slot holds before the call.
CallerSlot == "caller's slot"

\* The pointers the chained resolver may answer a name with.
ChainedPointers(name) ==
    IF name = EnumerateName THEN ChainedEnumerators ELSE {ChainedOtherFunction}

\* What the chained resolver does to the slot: on success its pointer; on
\* failure it leaves the slot, or (clears) nulls it.
ChainedGetInstanceProcAddr(name, slot, code, pointer, clears) ==
    [ result |-> code,
      slot   |-> IF XR_SUCCEEDED(code)
                 THEN pointer
                 ELSE IF clears THEN NullPtr ELSE slot ]

\* dllmain.cpp:110-112: whether the lookup is the one to substitute.
\* (variants: the name test, or the result test, left out)
IsSubstitutedAnyName(result, name) ==
    XR_SUCCEEDED(result)
IsSubstitutedAnyResult(result, name) ==
    name = EnumerateName
IsSubstituted(result, name) ==
    XR_SUCCEEDED(result) /\ name = EnumerateName

xrGetInstanceProcAddr(name, code, pointer, clears) ==
    /\ IF next_xrGetInstanceProcAddr = NullPtr
       THEN \* a call through a null function pointer
            /\ pc' = "crashed"
            /\ lastCall' = [ op |-> ResolverName, returned |-> FALSE,
                             before |-> Globals, name |-> name, chained |-> <<>> ]
            /\ UNCHANGED <<next_xrEnumerateInstanceExtensionProperties, handedOut>>
       ELSE LET c == ChainedGetInstanceProcAddr(name, CallerSlot, code, pointer, clears)
                log == <<[ fn |-> next_xrGetInstanceProcAddr, name |-> name,
                           result |-> c.result, slot |-> c.slot ]>>
                substituted == IsSubstituted(c.result, name)
                slot == IF substituted
                        THEN Shim_xrEnumerateInstanceExtensionProperties
                        ELSE c.slot
            IN  /\ pc' = "returned"
                /\ next_xrEnumerateInstanceExtensionProperties' =
                       IF substituted
                       THEN c.slot
                       ELSE next_xrEnumerateInstanceExtensionProperties
                /\ lastCall' = [ op |-> ResolverName, returned |-> TRUE,
                                 before |-> Globals, name |-> name,
                                 result |-> IF substituted THEN XR_SUCCESS ELSE c.result,
                                 slot |-> slot, chained |-> log ]
                /\ handedOut' = handedOut \cup Handed({slot})
    /\ UNCHANGED <<inFlight, loadOutcome, chainedRuntimeModule,
                   next_xrNegotiateLoaderRuntimeInterface, next_xrGetInstanceProcAddr,
                   extensionsToMask, chainedList, discovery>>

\* The host can call the wrapper's resolver once it has been handed it.
GetInstanceProcAddr ==
    /\ pc = "idle"
    /\ Shim_xrGetInstanceProcAddr \in handedOut
    /\ \E name \in FunctionNames, code \in ChainedCodes, clears \in BOOLEAN :
           \E pointer \in ChainedPointers(name) :
               xrGetInstanceProcAddr(name, code, pointer, clears)

----------------------------------------------------------------------------
(* xrEnumerateInstanceExtensionProperties (dllmain.cpp:57-104). *)

\* {XR_TYPE_EXTENSION_PROPERTIES}: a record of the scratch buffer as allocated.
DefaultRecord ==
    [extensionName |-> <<>>, extensionVersion |-> 0]

\* The qualifiers, capacities and buffers a caller passes.
LayerNames == {NullPtr, "XR_APILAYER_some_layer"}
Capacities == 0..MaxCapacity
CallerBuffer == "caller's buffer"
CallerCount == "caller's count"
ScratchBuffer == "propertiesArray.data()"
Buffers == {NullPtr, CallerBuffer}

\* The chained enumeration on `list` (the two-call idiom of the API): `fault`
\* is the code it answers with when nothing is wrong with the arguments.
\* count: <<n>> when it writes the count output, <<>> when it does not.
ChainedEnumerate(list, capacity, buffer, fault) ==
    LET result == IF XR_SUCCEEDED(fault) /\ capacity # 0 /\ capacity < Len(list)
                  THEN XR_ERROR_SIZE_INSUFFICIENT
                  ELSE fault
    IN  [ result  |-> result,
          count   |-> IF XR_SUCCEEDED(fault) THEN <<Len(list)>> ELSE <<>>,
          records |-> IF XR_SUCCEEDED(result) /\ capacity # 0 /\ buffer # NullPtr
                      THEN list
                      ELSE <<>> ]

\* A buffer after `records` were written to its first entries.
Overwrite(buffer, records) ==
    [ i \in 1..Len(buffer) |-> IF i <= Len(records) THEN records[i] ELSE buffer[i] ]

\* std::find_if (dllmain.cpp:75-79): the first index whose name is the mask, or
\* Len + 1 (end).
FindIf(array, extensionToMask) ==
    IF \E i \in 1..Len(array) : array[i].extensionName = extensionToMask
    THEN CHOOSE i \in 1..Len(array) :
             /\ array[i].extensionName = extensionToMask
             /\ \A j \in 1..(i - 1) : array[j].extensionName # extensionToMask
    ELSE Len(array) + 1

\* vector::erase(it)
Erase(array, it) ==
    SubSeq(array, 1, it - 1) \o SubSeq(array, it + 1, Len(array))

\* dllmain.cpp:74-83: the mask loop.
RECURSIVE MaskExtensions(_, _)
MaskExtensions(propertiesArray, masks) ==
    IF masks = <<>>
    THEN propertiesArray
    ELSE LET it == FindIf(propertiesArray, Head(masks))
         IN  MaskExtensions(
                 IF it # Len(propertiesArray) + 1
                 THEN Erase(propertiesArray, it)
                 ELSE propertiesArray,
                 Tail(masks))

\* dllmain.cpp:74: the loop takes each entry of the global list by const
\* reference; the list after the loop is the list before it.
\* (variant: the loop takes its first entry out of the list)
MasksAfterLoopConsumed(masks) ==
    IF masks = <<>> THEN masks ELSE Tail(masks)
MasksAfterLoop(masks) ==
    masks

\* dllmain.cpp:71: the capacity passed with the scratch buffer.
\* (variant: the caller's capacity passed on)
QueryCapacityOfCaller(propertiesArray, propertyCapacityInput) ==
    propertyCapacityInput
QueryCapacity(propertiesArray, propertyCapacityInput) ==
    Len(propertiesArray)

\* dllmain.cpp:72: whether the scratch buffer is taken as filled.
\* (variant: the result test left out)
IsQueriedAlways(result) ==
    TRUE
IsQueried(result) ==
    XR_SUCCEEDED(result)

\* dllmain.cpp:86: whether the edited list is copied out.
CopiesOut(properties) ==
    properties # NullPtr

\* dllmain.cpp:88: the number of records the memcpy writes.
\* (variant: no more than the capacity)
CopyLengthWithinCapacity(propertiesArray, propertyCapacityInput) ==
    IF propertyCapacityInput < Len(propertiesArray)
    THEN propertyCapacityInput
    ELSE Len(propertiesArray)
CopyLength(propertiesArray, propertyCapacityInput) ==
    Len(propertiesArray)

\* dllmain.cpp:92: the count reported after two successful chained calls.
\* (variant: the chained count left in place)
AdjustedCountUnadjusted(propertiesArray, chainedCount) ==
    chainedCount
AdjustedCount(propertiesArray, chainedCount) ==
    Len(propertiesArray)

\* dllmain.cpp:93: whether the result becomes XR_ERROR_SIZE_INSUFFICIENT.
\* (variants: <= for <, and the test for a zero capacity left out)
IsInsufficientOffByOne(propertyCapacityInput, propertyCountOutput) ==
    propertyCapacityInput # 0 /\ propertyCapacityInput <= propertyCountOutput
IsInsufficientAtZero(propertyCapacityInput, propertyCountOutput) ==
    propertyCapacityInput < propertyCountOutput
IsInsufficient(propertyCapacityInput, propertyCountOutput) ==
    propertyCapacityInput # 0 /\ propertyCapacityInput < propertyCountOutput

\* dllmain.cpp:62: whether the call takes the masking path.
\* (variant: the qualifier ignored)
IsUnqualifiedAlways(layerName) ==
    TRUE
IsUnqualified(layerName) ==
    layerName = NullPtr

\* A count cell after a chained call that wrote `count` or nothing.
Cell(before, count) ==
    IF count # <<>> THEN count ELSE before

\* The whole function: what it answers, writes and calls, given the chained
\* runtime's list and the codes its (up to two) calls answer with.
\*   count    the caller's count output: <<n>>, or <<>> when nothing wrote it
\*   copied   whether the memcpy of line 87 ran
\*   written  the records written through the caller's buffer pointer
\*   override whether line 94 replaced the chained result
\*   filtered the scratch buffer after the mask loop (<<>> when not reached)
\*   chained  the calls of the chained target, in order
Enumerate(layerName, propertyCapacityInput, properties, list, fault1, fault2, masks) ==
    IF IsUnqualified(layerName)
    THEN LET c1   == ChainedEnumerate(list, 0, NullPtr, fault1)
             log1 == [ layerName |-> NullPtr, capacity |-> 0,
                       countPointer |-> CallerCount, buffer |-> NullPtr,
                       result |-> c1.result, count |-> c1.count,
                       records |-> c1.records ]
             cell1 == Cell(<<>>, c1.count)
         IN  IF XR_SUCCEEDED(c1.result)
             THEN LET scratch == [ i \in 1..cell1[1] |-> DefaultRecord ]
                      capacity == QueryCapacity(scratch, propertyCapacityInput)
                      c2   == ChainedEnumerate(list, capacity, ScratchBuffer, fault2)
                      log2 == [ layerName |-> NullPtr, capacity |-> capacity,
                                countPointer |-> CallerCount,
                                buffer |-> ScratchBuffer, result |-> c2.result,
                                count |-> c2.count, records |-> c2.records ]
                      cell2 == Cell(cell1, c2.count)
                  IN  IF IsQueried(c2.result)
                      THEN LET propertiesArray ==
                                   MaskExtensions(Overwrite(scratch, c2.records), masks)
                               count == AdjustedCount(propertiesArray, cell2[1])
                               insufficient == IsInsufficient(propertyCapacityInput, count)
                           IN  [ result   |-> IF insufficient
                                              THEN XR_ERROR_SIZE_INSUFFICIENT
                                              ELSE c2.result,
                                 count    |-> <<count>>,
                                 copied   |-> CopiesOut(properties),
                                 written  |-> IF CopiesOut(properties)
                                              THEN SubSeq(propertiesArray, 1,
                                                       CopyLength(propertiesArray,
                                                           propertyCapacityInput))
                                              ELSE <<>>,
                                 override |-> insufficient,
                                 masked   |-> TRUE,
                                 filtered |-> propertiesArray,
                                 chained  |-> <<log1, log2>> ]
                      ELSE [ result |-> c2.result, count |-> cell2, copied |-> FALSE,
                             written |-> <<>>, override |-> FALSE, masked |-> FALSE,
                             filtered |-> <<>>, chained |-> <<log1, log2>> ]
             ELSE [ result |-> c1.result, count |-> cell1, copied |-> FALSE,
                    written |-> <<>>, override |-> FALSE, masked |-> FALSE,
                    filtered |-> <<>>, chained |-> <<log1>> ]
    ELSE LET c == ChainedEnumerate(list, propertyCapacityInput, properties, fault1)
         IN  [ result |-> c.result, count |-> Cell(<<>>, c.count), copied |-> FALSE,
               written |-> c.records, override |-> FALSE, masked |-> FALSE,
               filtered |-> <<>>,
               chained |-> <<[ layerName |-> layerName,
                               capacity |-> propertyCapacityInput,
                               countPointer |-> CallerCount,
                               buffer |-> properties, result |-> c.result,
                               count |-> c.count, records |-> c.records ]>> ]

\* The caller's two-call idiom: a discovery call asks for the count only.
IsDiscoveryCall(layerName, capacity, buffer) ==
    layerName = NullPtr /\ capacity = 0 /\ buffer = NullPtr

\* The codes the chained target answers one call of the wrapper with: a second
\* code only where the wrapper makes a second chained call.
Faults(layerName) ==
    IF layerName = NullPtr
    THEN { <<f1, f2>> \in ChainedCodes \X ChainedCodes :
               XR_SUCCEEDED(f1) \/ f2 = XR_SUCCESS }
    ELSE { <<f1, XR_SUCCESS>> : f1 \in ChainedCodes }

xrEnumerateInstanceExtensionProperties(layerName, capacity, buffer, fault1, fault2) ==
    /\ IF next_xrEnumerateInstanceExtensionProperties = NullPtr
       THEN \* a call through a null function pointer
            /\ pc' = "crashed"
            /\ lastCall' = [ op |-> EnumerateName, returned |-> FALSE,
                             before |-> Globals ]
            /\ UNCHANGED <<extensionsToMask, discovery>>
       ELSE LET out == Enumerate(layerName, capacity, buffer, chainedList,
                                 fault1, fault2, extensionsToMask)
                \* the data call of the idiom: it follows the caller's discovery
                \* call, on an unchanged list, with the count that call reported
                data == /\ discovery # <<>>
                        /\ layerName = NullPtr
                        /\ buffer # NullPtr
                        /\ capacity = discovery[1]
            IN  /\ pc' = "returned"
                /\ lastCall' = [ op |-> EnumerateName, returned |-> TRUE,
                                 before |-> Globals,
                                 layerName |-> layerName, capacity |-> capacity,
                                 countPointer |-> CallerCount, buffer |-> buffer,
                                 result |-> out.result, count |-> out.count,
                                 copied |-> out.copied, written |-> out.written,
                                 override |-> out.override, masked |-> out.masked,
                                 filtered |-> out.filtered,
                                 chained |-> out.chained,
                                 discovered |-> IF data THEN discovery ELSE <<>>,
                                 \* the caller repeats the call it has just made
                                 again |-> pc = "returned" ]
                /\ extensionsToMask' = IF out.masked
                                       THEN MasksAfterLoop(extensionsToMask)
                                       ELSE extensionsToMask
                /\ discovery' = IF /\ IsDiscoveryCall(layerName, capacity, buffer)
                                   /\ XR_SUCCEEDED(out.result)
                                THEN out.count
                                ELSE <<>>
    /\ UNCHANGED <<inFlight, loadOutcome, chainedRuntimeModule,
                   next_xrNegotiateLoaderRuntimeInterface, next_xrGetInstanceProcAddr,
                   next_xrEnumerateInstanceExtensionProperties,
                   chainedList, handedOut>>

\* The host can call the replacement once it has been handed it.
EnumerateInstanceExtensionProperties ==
    /\ pc = "idle"
    /\ Shim_xrEnumerateInstanceExtensionProperties \in handedOut
    /\ \E layerName \in LayerNames, capacity \in Capacities, buffer \in Buffers :
           \E faults \in Faults(layerName) :
               xrEnumerateInstanceExtensionProperties(layerName, capacity, buffer,
                                                      faults[1], faults[2])

\* The host calls the replacement again with the arguments of the call that
\* has just returned; the chained target answers its calls as it did then.
EnumerateAgain ==
    /\ pc = "returned"
    /\ lastCall.op = EnumerateName
    /\ lastCall.returned
    /\ \E faults \in Faults(lastCall.layerName) :
           /\ \A i \in 1..Len(lastCall.chained) :
                  lastCall.chained[i].result =
                      ChainedEnumerate(chainedList, lastCall.chained[i].capacity,
                                       lastCall.chained[i].buffer, faults[i]).result
           /\ xrEnumerateInstanceExtensionProperties(lastCall.layerName,
                                                     lastCall.capacity, lastCall.buffer,
                                                     faults[1], faults[2])

----------------------------------------------------------------------------

Next ==
    \/ DllMain
    \/ Return
    \/ ChainedListChanges
    \/ Negotiate
    \/ GetInstanceProcAddr
    \/ EnumerateInstanceExtensionProperties

Spec ==
    Init /\ [][Next]_vars

\* The wrapper in service: initialized on a file that names a runtime, the
\* chain loaded, both of its functions handed to the host.
MaskLists ==
    { ReadConfiguration(file).extensionsToMask : file \in ConfigFiles }

InitServing ==
    /\ pc = "idle"
    /\ loadOutcome = "loaded"
    /\ chainedRuntimeModule = ChainedModule
    /\ next_xrNegotiateLoaderRuntimeInterface = Chained_xrNegotiateLoaderRuntimeInterface
    /\ next_xrGetInstanceProcAddr = CHOOSE r \in ChainedResolvers : TRUE
    /\ next_xrEnumerateInstanceExtensionProperties =
           CHOOSE e \in ChainedEnumerators : TRUE
    /\ extensionsToMask \in MaskLists
    /\ chainedList \in Lists
    /\ handedOut = {Shim_xrGetInstanceProcAddr,
                    Shim_xrEnumerateInstanceExtensionProperties}
    /\ discovery = <<>>
    /\ lastCall = NoCall
    /\ inFlight = NoThreadInside

\* The enumeration calls of a host that may repeat a call.
NextRepeat ==
    \/ EnumerateInstanceExtensionProperties
    \/ EnumerateAgain
    \/ Return

SpecRepeat ==
    InitServing /\ [][NextRepeat]_vars

----------------------------------------------------------------------------
(* xrEnumerateInstanceExtensionProperties (dllmain.cpp:57-104) step by step,
   for calls that overlap: each thread has its own arguments, its own locals
   (result, propertiesArray) and its own output locations; a step is the code
   between two accesses of what the threads share. The calls are unqualified
   and pass a buffer; the chained target answers XR_SUCCESS. *)

\* The other thread is in the middle of a call.
OtherInside(t) ==
    \E u \in Threads \ {t} : inFlight[u].at \in {"counted", "queried"}

\* dllmain.cpp:62-66: entry and the count query.
CountQuery(t, propertyCapacityInput) ==
    /\ inFlight[t].at = "out"
    /\ LET c1 == ChainedEnumerate(chainedList, 0, NullPtr, XR_SUCCESS)
       IN  inFlight' = [inFlight EXCEPT ![t] =
               [ at |-> "counted",
                 entry |-> Globals,
                 propertyCapacityInput |-> propertyCapacityInput,
                 properties |-> <<CallerBuffer, t>>,
                 result |-> c1.result,
                 propertyCountOutput |-> Cell(<<>>, c1.count) ]]
    /\ UNCHANGED <<pc, loadOutcome, chainedRuntimeModule,
                   next_xrNegotiateLoaderRuntimeInterface, next_xrGetInstanceProcAddr,
                   next_xrEnumerateInstanceExtensionProperties, extensionsToMask,
                   chainedList, handedOut, discovery, lastCall>>

\* dllmain.cpp:66-71: the scratch buffer and the data query.
DataQuery(t) ==
    /\ inFlight[t].at = "counted"
    /\ LET my == inFlight[t]
       IN  IF XR_SUCCEEDED(my.result)
           THEN LET scratch == [ i \in 1..my.propertyCountOutput[1] |-> DefaultRecord ]
                    c2 == ChainedEnumerate(chainedList,
                                           QueryCapacity(scratch, my.propertyCapacityInput),
                                           ScratchBuffer, XR_SUCCESS)
                IN  inFlight' = [inFlight EXCEPT ![t] =
                        [ my EXCEPT !.at = "queried",
                                    !.result = c2.result,
                                    !.propertyCountOutput = Cell(@, c2.count) ]
                        @@ [ propertiesArray |-> Overwrite(scratch, c2.records) ]]
           ELSE inFlight' = [inFlight EXCEPT ![t] =
                    [ my EXCEPT !.at = "queried" ] @@ [ propertiesArray |-> <<>> ]]
    /\ UNCHANGED <<pc, loadOutcome, chainedRuntimeModule,
                   next_xrNegotiateLoaderRuntimeInterface, next_xrGetInstanceProcAddr,
                   next_xrEnumerateInstanceExtensionProperties, extensionsToMask,
                   chainedList, handedOut, discovery, lastCall>>

\* dllmain.cpp:72-103: the mask loop, the copy, the count, the return.
\*   overlapped: another thread is in the middle of its call at this moment
MaskAndReturn(t) ==
    /\ inFlight[t].at = "queried"
    /\ LET my == inFlight[t]
           done == IsQueried(my.result)
           propertiesArray == IF done
                              THEN MaskExtensions(my.propertiesArray, extensionsToMask)
                              ELSE my.propertiesArray
           count == AdjustedCount(propertiesArray, my.propertyCountOutput[1])
       IN  /\ inFlight' = [inFlight EXCEPT ![t] =
                  [ at |-> "returned",
                    entry |-> my.entry,
                    propertyCapacityInput |-> my.propertyCapacityInput,
                    properties |-> my.properties,
                    result |-> IF done /\ IsInsufficient(my.propertyCapacityInput, count)
                               THEN XR_ERROR_SIZE_INSUFFICIENT
                               ELSE my.result,
                    propertyCountOutput |-> IF done
                                            THEN <<count>>
                                            ELSE my.propertyCountOutput,
                    written |-> IF done /\ CopiesOut(my.properties)
                                THEN SubSeq(propertiesArray, 1,
                                            CopyLength(propertiesArray,
                                                       my.propertyCapacityInput))
                                ELSE <<>>,
                    overlapped |-> OtherInside(t) ]]
           /\ extensionsToMask' = IF done
                                  THEN MasksAfterLoop(extensionsToMask)
                                  ELSE extensionsToMask
    /\ UNCHANGED <<pc, loadOutcome, chainedRuntimeModule,
                   next_xrNegotiateLoaderRuntimeInterface, next_xrGetInstanceProcAddr,
                   next_xrEnumerateInstanceExtensionProperties,
                   chainedList, handedOut, discovery, lastCall>>

\* The thread takes the outputs of its call.
Leave(t) ==
    /\ inFlight[t].at = "returned"
    /\ inFlight' = [inFlight EXCEPT ![t] = [at |-> "out"]]
    /\ UNCHANGED <<pc, loadOutcome, chainedRuntimeModule,
                   next_xrNegotiateLoaderRuntimeInterface, next_xrGetInstanceProcAddr,
                   next_xrEnumerateInstanceExtensionProperties, extensionsToMask,
                   chainedList, handedOut, discovery, lastCall>>

NextThreads ==
    \E t \in Threads :
        \/ \E propertyCapacityInput \in Capacities : CountQuery(t, propertyCapacityInput)
        \/ DataQuery(t)
        \/ MaskAndReturn(t)
        \/ Leave(t)

SpecThreads ==
    InitServing /\ [][NextThreads]_vars

----------------------------------------------------------------------------
(* Properties. *)

\* A call of `op` has just returned (or, for a crash, has just ended).
Ended(op) ==
    pc \in {"returned", "crashed"} /\ lastCall.op = op
Returned(op) ==
    pc = "returned" /\ lastCall.op = op /\ lastCall.returned

\* An unqualified enumeration whose two chained calls succeeded.
MaskedCall ==
    /\ Returned(EnumerateName)
    /\ lastCall.layerName = NullPtr
    /\ Len(lastCall.chained) = 2
    /\ \A i \in 1..2 : XR_SUCCEEDED(lastCall.chained[i].result)

\* The records of `list` whose name is no entry of `masks`, in order.
WithoutNames(list, masks) ==
    LET Kept(r) == \A k \in 1..Len(masks) : r.extensionName # masks[k]
    IN  SelectSeq(list, Kept)

\* C1: an unqualified enumeration whose two chained calls succeed yields
\* exactly the chained records whose name equals no suppressed entry, in their
\* order, also when a name occurs more than once in the chained list.
C1_YieldsRecordsOfNoSuppressedName ==
    MaskedCall =>
        /\ lastCall.filtered = WithoutNames(lastCall.chained[2].records, extensionsToMask)
        /\ lastCall.count = <<Len(lastCall.filtered)>>
        /\ lastCall.buffer # NullPtr => lastCall.written = lastCall.filtered

\* C2: the two-call idiom against the replacement, on an unchanged chained list
\* whose calls succeed. The discovery call (capacity 0, null buffer) succeeds
\* and reports the number of records the mask loop leaves; the data call
\* (capacity = that count, a buffer) succeeds, reports the same count and
\* delivers exactly those records in order.
C2_TwoCallIdiom ==
    MaskedCall =>
        LET kept == MaskExtensions(chainedList, extensionsToMask)
        IN  /\ IsDiscoveryCall(lastCall.layerName, lastCall.capacity, lastCall.buffer) =>
                /\ XR_SUCCEEDED(lastCall.result)
                /\ lastCall.result = lastCall.chained[2].result
                /\ lastCall.count = <<Len(kept)>>
                /\ discovery = lastCall.count
            /\ lastCall.discovered # <<>> =>
                /\ XR_SUCCEEDED(lastCall.result)
                /\ lastCall.result = lastCall.chained[2].result
                /\ lastCall.count = lastCall.discovered
                /\ lastCall.written = kept
                /\ Len(lastCall.written) = lastCall.discovered[1]

\* The data call of the idiom has returned a proper part of a chained list of
\* two records (the analogue of [A,B,C,D] less {B,D}).
C2_Witness ==
    /\ MaskedCall
    /\ lastCall.discovered = <<1>>
    /\ Len(chainedList) = 2
    /\ lastCall.written = <<chainedList[1]>>
    /\ lastCall.result = XR_SUCCESS

\* C3: after two successful chained calls the count output is the number of
\* records left after masking, for every capacity and buffer; and a non-zero
\* capacity below that count makes the result XR_ERROR_SIZE_INSUFFICIENT.
C3_AdjustedCountAndSizeInsufficient ==
    MaskedCall =>
        LET kept == MaskExtensions(chainedList, extensionsToMask)
        IN  /\ lastCall.count = <<Len(kept)>>
            /\ (lastCall.capacity # 0 /\ lastCall.capacity < Len(kept)) =>
                   lastCall.result = XR_ERROR_SIZE_INSUFFICIENT

\* A capacity of 1 met two records left, with a mask configured.
C3_Witness ==
    /\ MaskedCall
    /\ extensionsToMask # <<>>
    /\ lastCall.capacity = 1
    /\ lastCall.count = <<2>>
    /\ lastCall.result = XR_ERROR_SIZE_INSUFFICIENT

\* C4: an unqualified call with capacity 0 never gets the wrapper's
\* XR_ERROR_SIZE_INSUFFICIENT (it gets that code only if a chained call
\* answered it), and with a null buffer nothing is copied or written through it.
C4_DiscoveryCallNeverPenalized ==
    Returned(EnumerateName) =>
        /\ (lastCall.layerName = NullPtr /\ lastCall.capacity = 0) =>
               /\ ~lastCall.override
               /\ lastCall.result = XR_ERROR_SIZE_INSUFFICIENT =>
                      \E i \in 1..Len(lastCall.chained) :
                          lastCall.chained[i].result = XR_ERROR_SIZE_INSUFFICIENT
        /\ lastCall.buffer = NullPtr =>
               /\ ~lastCall.copied
               /\ lastCall.written = <<>>

\* A discovery call met two records left, and returned their count only.
C4_Witness ==
    /\ MaskedCall
    /\ lastCall.capacity = 0
    /\ lastCall.buffer = NullPtr
    /\ lastCall.count = <<2>>
    /\ lastCall.result = XR_SUCCESS

\* C5: with a non-null qualifier the replacement calls the chained target
\* once, with the caller's own arguments, masks nothing and returns the chained
\* result, count and records as they are.
C5_QualifiedPassthrough ==
    (Returned(EnumerateName) /\ lastCall.layerName # NullPtr) =>
        /\ Len(lastCall.chained) = 1
        /\ lastCall.chained[1].layerName = lastCall.layerName
        /\ lastCall.chained[1].capacity = lastCall.capacity
        /\ lastCall.chained[1].countPointer = lastCall.countPointer
        /\ lastCall.chained[1].buffer = lastCall.buffer
        /\ ~lastCall.masked
        /\ ~lastCall.copied
        /\ ~lastCall.override
        /\ lastCall.result = lastCall.chained[1].result
        /\ lastCall.count = lastCall.chained[1].count
        /\ lastCall.written = lastCall.chained[1].records

\* A qualified call delivered a record whose name is suppressed.
C5_Witness ==
    /\ Returned(EnumerateName)
    /\ lastCall.layerName # NullPtr
    /\ lastCall.written # <<>>
    /\ \E k \in 1..Len(extensionsToMask) :
           lastCall.written[1].extensionName = extensionsToMask[k]

\* C6: for every name but the enumeration function's, the resolver returns
\* the chained resolver's code, leaves the slot as the chained resolver wrote
\* it, and changes none of the wrapper's globals.
C6_OtherNamesTransparent ==
    (Returned(ResolverName) /\ lastCall.name # EnumerateName) =>
        /\ Len(lastCall.chained) = 1
        /\ lastCall.chained[1].name = lastCall.name
        /\ lastCall.result = lastCall.chained[1].result
        /\ lastCall.slot = lastCall.chained[1].slot
        /\ Globals = lastCall.before

\* Another name was resolved successfully, a chained target being stored.
C6_Witness ==
    /\ Returned(ResolverName)
    /\ lastCall.name # EnumerateName
    /\ XR_SUCCEEDED(lastCall.result)
    /\ lastCall.slot = ChainedOtherFunction
    /\ next_xrEnumerateInstanceExtensionProperties # NullPtr

\* C7: a successful forward for the enumeration function's name stores the
\* chained pointer as the chained target, puts the replacement in the slot and
\* returns XR_SUCCESS; a failed forward, for any name, returns the chained code,
\* leaves the slot as the chained resolver left it and keeps the stored target.
C7_SubstitutionOnlyOnSuccess ==
    Returned(ResolverName) =>
        /\ Len(lastCall.chained) = 1
        /\ (XR_SUCCEEDED(lastCall.chained[1].result) /\ lastCall.name = EnumerateName) =>
               /\ next_xrEnumerateInstanceExtensionProperties = lastCall.chained[1].slot
               /\ next_xrEnumerateInstanceExtensionProperties \in ChainedEnumerators
               /\ lastCall.slot = Shim_xrEnumerateInstanceExtensionProperties
               /\ lastCall.result = XR_SUCCESS
        /\ ~XR_SUCCEEDED(lastCall.chained[1].result) =>
               /\ lastCall.result = lastCall.chained[1].result
               /\ lastCall.slot = lastCall.chained[1].slot
               /\ lastCall.slot # Shim_xrEnumerateInstanceExtensionProperties
               /\ next_xrEnumerateInstanceExtensionProperties =
                      lastCall.before.next_xrEnumerateInstanceExtensionProperties

\* A forward for the enumeration function's name failed with a target stored.
C7_Witness ==
    /\ Returned(ResolverName)
    /\ lastCall.name = EnumerateName
    /\ ~XR_SUCCEEDED(lastCall.result)
    /\ next_xrEnumerateInstanceExtensionProperties # NullPtr

\* C8: with no module handle after initialization (no file, no `runtime` key,
\* module not found), every negotiation call returns
\* XR_ERROR_FILE_ACCESS_ERROR, calls nothing chained and leaves the record.
C8_UnavailableFailsFast ==
    /\ (pc # "attach" /\ loadOutcome \in {"no file", "no runtime", "module not found"}) =>
           chainedRuntimeModule = NullPtr
    /\ (Ended(NegotiateName) /\ chainedRuntimeModule = NullPtr) =>
           /\ lastCall.returned
           /\ lastCall.result = XR_ERROR_FILE_ACCESS_ERROR
           /\ lastCall.chained = <<>>
           /\ lastCall.response = lastCall.request
           /\ Globals = lastCall.before
           /\ handedOut = {}

\* A negotiation call has ended after the module was not found.
C8_Witness ==
    /\ Ended(NegotiateName)
    /\ loadOutcome = "module not found"

\* C9: every chain-load failure (module not found, symbol not found) leaves
\* the module handle unset, and every later negotiation call returns
\* XR_ERROR_FILE_ACCESS_ERROR without forwarding.
C9_EveryLoadFailureUnavailable ==
    (pc # "attach" /\ loadOutcome \in {"module not found", "symbol not found"}) =>
        /\ chainedRuntimeModule = NullPtr
        /\ Ended(NegotiateName) =>
               /\ lastCall.returned
               /\ lastCall.result = XR_ERROR_FILE_ACCESS_ERROR
               /\ lastCall.chained = <<>>

\* A step in which a negotiation call's chained call succeeded.
NegotiationSucceeds ==
    /\ pc' = "returned"
    /\ lastCall'.op = NegotiateName
    /\ Len(lastCall'.chained) = 1
    /\ XR_SUCCEEDED(lastCall'.chained[1].result)

\* C10: after a negotiation call whose chained call succeeded, the response's
\* resolver is the wrapper's and the stored chained resolver is the one the
\* chained implementation wrote in that call; no other step changes the stored
\* resolver, so it is always that of the latest successful call.
C10_LatestSuccessfulNegotiationWins ==
    /\ [](( /\ Returned(NegotiateName)
            /\ Len(lastCall.chained) = 1
            /\ XR_SUCCEEDED(lastCall.chained[1].result) ) =>
               /\ lastCall.response.getInstanceProcAddr = Shim_xrGetInstanceProcAddr
               /\ next_xrGetInstanceProcAddr =
                      lastCall.chained[1].response.getInstanceProcAddr
               /\ next_xrGetInstanceProcAddr \in ChainedResolvers)
    /\ [][ IF NegotiationSucceeds
           THEN next_xrGetInstanceProcAddr' =
                    lastCall'.chained[1].response.getInstanceProcAddr
           ELSE next_xrGetInstanceProcAddr' = next_xrGetInstanceProcAddr ]_vars

\* A successful negotiation replaced a stored resolver by another one.
C10_Witness ==
    /\ Returned(NegotiateName)
    /\ XR_SUCCEEDED(lastCall.result)
    /\ lastCall.before.next_xrGetInstanceProcAddr # NullPtr
    /\ lastCall.before.next_xrGetInstanceProcAddr # next_xrGetInstanceProcAddr
    /\ lastCall.response.getInstanceProcAddr = Shim_xrGetInstanceProcAddr

\* C11: after a negotiation call whose chained call failed, the result is the
\* chained code, the response is as the chained implementation left it (its
\* resolver field is not the wrapper's resolver) and the stored chained
\* resolver is the one stored before the call.
C11_FailedNegotiationUntouched ==
    ( /\ Returned(NegotiateName)
      /\ Len(lastCall.chained) = 1
      /\ ~XR_SUCCEEDED(lastCall.chained[1].result) ) =>
        /\ lastCall.result = lastCall.chained[1].result
        /\ lastCall.response = lastCall.chained[1].response
        /\ lastCall.response.getInstanceProcAddr # Shim_xrGetInstanceProcAddr
        /\ next_xrGetInstanceProcAddr = lastCall.before.next_xrGetInstanceProcAddr
        /\ Globals = lastCall.before

\* A failed chained negotiation that left its own resolver in the response,
\* after an earlier negotiation had stored another one.
C11_Witness ==
    /\ Returned(NegotiateName)
    /\ Len(lastCall.chained) = 1
    /\ lastCall.result = XR_ERROR_RUNTIME_FAILURE
    /\ lastCall.response.getInstanceProcAddr \in ChainedResolvers
    /\ next_xrGetInstanceProcAddr \in ChainedResolvers
    /\ lastCall.response.getInstanceProcAddr # next_xrGetInstanceProcAddr

\* C12 (as stated): the globals are written only during initialization; after
\* any call of the negotiation entry point, the resolver or the enumeration
\* replacement they hold what they held before the call.
C12_WrittenOnlyDuringInitialization ==
    ( Ended(NegotiateName) \/ Ended(ResolverName) \/ Ended(EnumerateName) ) =>
        Globals = lastCall.before

\* C12 (amended): once initialization is over, the module handle, the chained
\* negotiation pointer and the suppressed set never change; the stored chained
\* resolver changes only in a negotiation call whose chained call succeeded,
\* the stored chained target only in a resolver call that looked up the
\* enumeration function with success; an enumeration call changes none.
C12_WrittenOnlyByCapture ==
    [][ pc # "attach" =>
          /\ chainedRuntimeModule' = chainedRuntimeModule
          /\ next_xrNegotiateLoaderRuntimeInterface' =
                 next_xrNegotiateLoaderRuntimeInterface
          /\ extensionsToMask' = extensionsToMask
          /\ next_xrGetInstanceProcAddr' # next_xrGetInstanceProcAddr =>
                 NegotiationSucceeds
          /\ next_xrEnumerateInstanceExtensionProperties' #
                 next_xrEnumerateInstanceExtensionProperties =>
                 /\ pc' = "returned"
                 /\ lastCall'.op = ResolverName
                 /\ lastCall'.name = EnumerateName
                 /\ Len(lastCall'.chained) = 1
                 /\ XR_SUCCEEDED(lastCall'.chained[1].result)
          /\ lastCall'.op = EnumerateName => Globals' = Globals ]_vars

\* A resolver call stored a chained target over the one stored before.
C12_Witness ==
    /\ Returned(ResolverName)
    /\ lastCall.before.next_xrEnumerateInstanceExtensionProperties # NullPtr
    /\ next_xrEnumerateInstanceExtensionProperties #
           lastCall.before.next_xrEnumerateInstanceExtensionProperties

\* C13: with an empty suppressed set, an unqualified call whose chained calls
\* succeed reports the chained count, holds the chained records in their order,
\* and lets the caller observe the result, the count and the written records
\* of a direct call of the chained target with the caller's arguments.
C13_EmptySetFaithfulPassthrough ==
    ( MaskedCall /\ extensionsToMask = <<>> ) =>
        LET direct == ChainedEnumerate(chainedList, lastCall.capacity,
                                       lastCall.buffer, lastCall.chained[2].result)
        IN  /\ lastCall.count = <<Len(chainedList)>>
            /\ lastCall.filtered = chainedList
            /\ lastCall.result = direct.result
            /\ lastCall.count = direct.count
            /\ lastCall.written = direct.records

\* An unqualified enumeration one of whose chained calls failed.
FailedCall ==
    /\ Returned(EnumerateName)
    /\ lastCall.layerName = NullPtr
    /\ ~XR_SUCCEEDED(lastCall.chained[Len(lastCall.chained)].result)

\* C14: an unqualified call whose count query or data query failed returns
\* that chained code, filters nothing, copies nothing and applies no override;
\* and whenever an enumeration call returns a code other than the one its last
\* chained call answered, it is XR_ERROR_SIZE_INSUFFICIENT after two
\* successful chained calls.
C14_ChainedErrorsUnchanged ==
    /\ FailedCall =>
          /\ lastCall.result = lastCall.chained[Len(lastCall.chained)].result
          /\ ~lastCall.masked
          /\ lastCall.filtered = <<>>
          /\ ~lastCall.copied
          /\ lastCall.written = <<>>
          /\ ~lastCall.override
          /\ \A i \in 1..(Len(lastCall.chained) - 1) :
                 XR_SUCCEEDED(lastCall.chained[i].result)
    /\ ( /\ Returned(EnumerateName)
         /\ lastCall.result # lastCall.chained[Len(lastCall.chained)].result ) =>
          /\ MaskedCall
          /\ lastCall.override
          /\ lastCall.result = XR_ERROR_SIZE_INSUFFICIENT

\* The data query failed after a successful count query, in a call with a
\* buffer and a capacity smaller than the chained count.
C14_Witness ==
    /\ FailedCall
    /\ Len(lastCall.chained) = 2
    /\ lastCall.result = XR_ERROR_RUNTIME_FAILURE
    /\ lastCall.buffer # NullPtr
    /\ lastCall.capacity # 0
    /\ lastCall.capacity < Len(chainedList)

\* Whether `line` reads key=value with this key (a key holds no separator),
\* and the value it then carries.
HasKey(line, key) ==
    /\ Len(line) > Len(key)
    /\ SubSeq(line, 1, Len(key) + 1) = key \o <<"=">>
ValueOf(line, key) ==
    SubSeq(line, Len(key) + 2, Len(line))

\* The values of the lines of `lines` that carry `key`, in file order.
ValuesOf(lines, key) ==
    LET Carries(line) == HasKey(line, key)
        carrying == SelectSeq(lines, Carries)
    IN  [ i \in 1..Len(carrying) |-> ValueOf(carrying[i], key) ]

\* C15: after initialization on any file, the suppressed set is the sequence
\* of the values of its maskExtension lines, in file order and with repeats,
\* whatever other lines stand between them; the chained module's name is the
\* value of the last runtime line (with the .dll suffix), or none.
C15_ConfigurationAsWritten ==
    Returned("DllMain") =>
        LET lines    == IF lastCall.file = NoFile THEN <<>> ELSE lastCall.file[2]
            runtimes == ValuesOf(lines, RuntimeKey)
        IN  /\ extensionsToMask = ValuesOf(lines, MaskKey)
            /\ lastCall.openXrRuntime =
                   IF runtimes = <<>>
                   THEN <<>>
                   ELSE runtimes[Len(runtimes)] \o DllSuffix

\* A file with a line without separator and two maskExtension lines of one
\* value.
C15_Witness ==
    /\ Returned("DllMain")
    /\ lastCall.file # NoFile
    /\ Len(lastCall.file[2]) = MaxLines
    /\ Len(ValuesOf(lastCall.file[2], MaskKey)) >= 2
    /\ \E i \in 1..Len(lastCall.file[2]) :
           StringFind(lastCall.file[2][i], "=") = npos
    /\ extensionsToMask[1] = extensionsToMask[Len(extensionsToMask)]

\* A file whose two runtime lines name different modules.
C15_WitnessRuntime ==
    /\ Returned("DllMain")
    /\ lastCall.file # NoFile
    /\ Len(ValuesOf(lastCall.file[2], RuntimeKey)) >= 2
    /\ ValuesOf(lastCall.file[2], RuntimeKey)[1] #
           ValuesOf(lastCall.file[2], RuntimeKey)[2]

\* A step in which the host repeats the enumeration call that has just
\* returned and the chained target is called and answers as in that call.
RepeatsWithSameAnswers ==
    /\ pc = "returned" /\ lastCall.op = EnumerateName /\ lastCall.returned
    /\ pc' = "returned" /\ lastCall'.op = EnumerateName /\ lastCall'.returned
    /\ lastCall'.again
    /\ lastCall'.layerName = lastCall.layerName
    /\ lastCall'.capacity = lastCall.capacity
    /\ lastCall'.buffer = lastCall.buffer
    /\ lastCall'.chained = lastCall.chained

\* C16: a call repeated with the same arguments on the same chained list,
\* with the chained target answering alike, returns the same code, count and
\* records (held and written) as the first; neither call changes the globals
\* or the list.
C16_RepeatedCallAgrees ==
    [][ RepeatsWithSameAnswers =>
          /\ lastCall'.result = lastCall.result
          /\ lastCall'.count = lastCall.count
          /\ lastCall'.filtered = lastCall.filtered
          /\ lastCall'.written = lastCall.written
          /\ Globals' = Globals
          /\ Globals = lastCall.before
          /\ chainedList' = chainedList ]_vars

\* A repeated call with a buffer, on a list of two records of which the
\* suppressed set takes one.
C16_Witness ==
    /\ MaskedCall
    /\ lastCall.again
    /\ Len(chainedList) = 2
    /\ Len(lastCall.filtered) = 1
    /\ lastCall.buffer # NullPtr
    /\ extensionsToMask # <<>>

\* C17: an unqualified call whose two chained calls succeeded and whose buffer
\* is not null wrote through it all the records the mask loop left, in their
\* order and as many as the count it reports, whatever the capacity.
C17_CopiesWhateverTheCapacity ==
    ( MaskedCall /\ lastCall.buffer # NullPtr ) =>
        /\ lastCall.copied
        /\ lastCall.written = lastCall.filtered
        /\ lastCall.count = <<Len(lastCall.written)>>

\* More records written than the capacity the caller declared.
C17_Witness ==
    /\ MaskedCall
    /\ lastCall.buffer # NullPtr
    /\ lastCall.capacity # 0
    /\ Len(lastCall.written) > lastCall.capacity
    /\ lastCall.result = XR_ERROR_SIZE_INSUFFICIENT

\* Records written with a capacity of 0.
C17_WitnessAtZero ==
    /\ MaskedCall
    /\ lastCall.buffer # NullPtr
    /\ lastCall.capacity = 0
    /\ lastCall.written # <<>>

\* C18: an unqualified call calls the chained target once or twice: first
\* with a null qualifier, capacity 0 and a null buffer; a second time exactly
\* when the first call succeeded, with a null qualifier and the scratch buffer
\* at a capacity equal to the count the first call reported. The caller's
\* buffer is passed to neither.
C18_CountQueryThenDataQuery ==
    ( Returned(EnumerateName) /\ lastCall.layerName = NullPtr ) =>
        LET calls == lastCall.chained
        IN  /\ Len(calls) \in {1, 2}
            /\ calls[1].layerName = NullPtr
            /\ calls[1].capacity = 0
            /\ calls[1].buffer = NullPtr
            /\ Len(calls) = 2 <=> XR_SUCCEEDED(calls[1].result)
            /\ Len(calls) = 2 =>
                   /\ calls[2].layerName = NullPtr
                   /\ calls[2].buffer = ScratchBuffer
                   /\ calls[2].capacity = calls[1].count[1]
            /\ \A i \in 1..Len(calls) : calls[i].buffer # CallerBuffer

\* A call with a buffer and a capacity of 1 on a list of two records: the
\* data query went out with the scratch buffer and a capacity of 2.
C18_Witness ==
    /\ Returned(EnumerateName)
    /\ lastCall.layerName = NullPtr
    /\ lastCall.buffer = CallerBuffer
    /\ lastCall.capacity = 1
    /\ Len(lastCall.chained) = 2
    /\ lastCall.chained[2].capacity = 2
    /\ lastCall.chained[2].buffer = ScratchBuffer

\* C20: whenever the host holds the wrapper's resolver, the stored chained
\* resolver is a pointer of the chained implementation, and whenever it holds
\* the replacement, so is the stored chained target; no call of the resolver
\* or the replacement goes through a null pointer; and a step that hands one
\* of the two out is a call that stored the matching chained pointer.
C20_CapturePrecedesExposure ==
    /\ [](( Shim_xrGetInstanceProcAddr \in handedOut =>
               next_xrGetInstanceProcAddr \in ChainedResolvers ) /\
          ( Shim_xrEnumerateInstanceExtensionProperties \in handedOut =>
               next_xrEnumerateInstanceExtensionProperties \in ChainedEnumerators ) /\
          ~( pc = "crashed" /\ lastCall.op \in {ResolverName, EnumerateName} ))
    /\ [][ ( Shim_xrGetInstanceProcAddr \in handedOut' \ handedOut =>
                ( NegotiationSucceeds /\
                  next_xrGetInstanceProcAddr' =
                      lastCall'.chained[1].response.getInstanceProcAddr ) ) /\
           ( Shim_xrEnumerateInstanceExtensionProperties \in handedOut' \ handedOut =>
                ( lastCall'.op = ResolverName /\
                  Len(lastCall'.chained) = 1 /\
                  next_xrEnumerateInstanceExtensionProperties' =
                      lastCall'.chained[1].slot ) ) ]_vars

\* The host called the replacement it was handed, and the call went to the
\* chained target through the stored pointer.
C20_Witness ==
    /\ Returned(EnumerateName)
    /\ handedOut = {Shim_xrGetInstanceProcAddr,
                    Shim_xrEnumerateInstanceExtensionProperties}
    /\ lastCall.chained # <<>>
    /\ lastCall.before.next_xrEnumerateInstanceExtensionProperties \in ChainedEnumerators
    /\ lastCall.before.next_xrGetInstanceProcAddr \in ChainedResolvers

\* C19: a call that returns from among overlapping calls returns the code,
\* the count and the records that the call made in one piece (Enumerate)
\* yields for its arguments on the same list with the globals it found at
\* entry; and the globals are still those.
C19_OverlappingCallsAsAlone ==
    \A t \in Threads :
        inFlight[t].at = "returned" =>
            LET my    == inFlight[t]
                alone == Enumerate(NullPtr, my.propertyCapacityInput, my.properties,
                                   chainedList, XR_SUCCESS, XR_SUCCESS,
                                   my.entry.extensionsToMask)
            IN  /\ my.result = alone.result
                /\ my.propertyCountOutput = alone.count
                /\ my.written = alone.written
                /\ Globals = my.entry

\* A call that masked a record returned while the other thread was in the
\* middle of its own call, which then returned too.
C19_Witness ==
    \E t \in Threads, u \in Threads :
        /\ t # u
        /\ inFlight[t].at = "returned"
        /\ inFlight[u].at = "returned"
        /\ inFlight[t].overlapped
        /\ inFlight[t].propertyCountOutput[1] < Len(chainedList)
        /\ inFlight[u].written # <<>>

====
